---------------------------- MODULE Spec2Model ----------------------------
(***************************************************************************)
(* Enrichment reconciliation of chronos-rest.                              *)
(*                                                                         *)
(* The repository holds two generations of the enrichment callback:        *)
(*   - processEnrichment (enrichment.service.js) with createMediaMeta and  *)
(*     createFace, over the unified MediaMeta / Face / PersonStorageItem   *)
(*     schema (specification Spec);                                        *)
(*   - updateEnrichmentData (storageItem.service.js), over one nullable    *)
(*     link-id column per metadata category (specification SpecLegacy);    *)
(* and the deletion / orphan cleanup services (specification SpecDelete).  *)
(* Every store access of the code is one step; a handler suspended at an   *)
(* await can be overtaken by the steps of another handler.                 *)
(***************************************************************************)
EXTENDS Integers, Sequences, FiniteSets, TLC

VARIABLES
    db,        \* the relational store, unified schema (unnamed/part_000)
    cb,        \* processEnrichment invocations in flight, one per caller
    now,       \* the value new Date() returns next
    calls,     \* callbacks started so far
    lastDone,  \* the last callback that ran alone to a 200, with the store it left
    ldb,       \* the relational store, per-category link-id schema
    lcb,       \* updateEnrichmentData invocations in flight, one per caller
    ops        \* deletion and cleanup operations in flight

vars == <<db, cb, now, calls, lastDone, ldb, lcb, ops>>

(***************************************************************************)
(* Bounds of the model.                                                    *)
(***************************************************************************)
MaxCalls == 2

None == "none"
\* the id of no row: ids are drawn from 1 upwards
NoId == 0

Users == {"u1", "u2"}
ItemIds == {"i1", "i2"}
\* an id no storage item has
MissingItem == "i9"
RequestIds == ItemIds \cup {MissingItem}
Callers == {"c1", "c2"}

Owner(i) == IF i = "i1" THEN "u1" ELSE "u2"

(***************************************************************************)
(* The unified schema: enum MetaType and the rows of each table.           *)
(***************************************************************************)
MetaType == {"GEO", "OCR", "TRANSCRIPT", "KEYWORD", "LABEL", "CUSTOM_LABEL",
             "CONTENT_MODERATION", "OTHER"}

\* the payload {} (or []) of a media meta entry
EmptyPayload == "empty"

EmptyDb ==
    [ items    |-> [i \in ItemIds |-> [present |-> TRUE, userId |-> Owner(i), processedAt |-> 0]],
      mediaMeta |-> {},
      face      |-> {},
      people    |-> {},
      links     |-> {},
      pictures  |-> {},
      nextId    |-> 1 ]

ItemPresent(d, id) == id \in ItemIds /\ d.items[id].present

(***************************************************************************)
(* createMediaMeta: one prisma.mediaMeta.create. The store rejects a type  *)
(* outside enum MetaType and an itemId that references no storage item.    *)
(***************************************************************************)
CreateMediaMeta(d, meta, itemId) ==
    IF meta.type \in MetaType /\ ItemPresent(d, itemId)
    THEN [ ok |-> TRUE,
           db |-> [d EXCEPT !.mediaMeta = @ \cup {[id |-> d.nextId, type |-> meta.type,
                                                    payload |-> meta.payload, itemId |-> itemId]},
                            !.nextId = @ + 1] ]
    ELSE [ ok |-> FALSE, db |-> d ]

\* processEnrichment's guards before createMediaMeta: entries it returns on
MetaSkipped(meta) ==
    \/ meta.type = None
    \/ meta.payload = None
    \/ meta.payload = EmptyPayload

(***************************************************************************)
(* Person service (unnamed/part_005) and profile pictures.                 *)
(***************************************************************************)
\* createProfilePicture: profilePicture.create; s3Key is a required column and
\* personId is unique
CreateProfilePicture(d, personId, s3Key) ==
    IF s3Key # None /\ ~(\E p \in d.pictures : p.personId = personId)
                   /\ (\E p \in d.people : p.id = personId)
    THEN [ ok |-> TRUE, db |-> [d EXCEPT !.pictures = @ \cup {[personId |-> personId, s3Key |-> s3Key]}] ]
    ELSE [ ok |-> FALSE, db |-> d ]

\* prisma.person.create with the default type
PersonCreate(d, name, type) ==
    [d EXCEPT !.people = @ \cup {[id |-> d.nextId, name |-> name,
                                   type |-> IF type = None THEN "PERSON" ELSE type]},
              !.nextId = @ + 1]

\* createPerson: person.create, then createProfilePicture; the person row stays
\* when the picture is rejected
CreatePerson(d, name, type, s3Key) ==
    LET pid == d.nextId
        d1  == PersonCreate(d, name, type)
        pic == CreateProfilePicture(d1, pid, s3Key)
    IN  [ ok |-> pic.ok, db |-> pic.db, personId |-> pid ]

\* getPersonById: the person, when one of its links belongs to userId
GetPersonById(d, id, userId) ==
    IF \E p \in d.people : p.id = id /\ \E l \in d.links : l.personId = id /\ l.userId = userId
    THEN id
    ELSE NoId

\* findOrCreatePerson: no personId creates a person, whatever the name
FindOrCreatePerson(d, face, userId) ==
    IF face.personId = NoId
    THEN CreatePerson(d, face.name, face.type, face.profileS3Key)
    ELSE [ ok |-> TRUE, db |-> d, personId |-> GetPersonById(d, face.personId, userId) ]

(***************************************************************************)
(* createFace (Person/Face/face.service.js, lines 5-78).                   *)
(***************************************************************************)
\* prisma.face.create: connects an existing storage item and person; the data
\* it passes names no user, so the row carries no user id
FaceCreate(d, face, itemId, personId) ==
    IF ItemPresent(d, itemId) /\ (\E p \in d.people : p.id = personId)
    THEN [ ok |-> TRUE,
           db |-> [d EXCEPT !.face = @ \cup {[id |-> d.nextId, boundingBox |-> face.boundingBox,
                                               storageItemId |-> itemId, personId |-> personId,
                                               userId |-> None]},
                            !.nextId = @ + 1] ]
    ELSE [ ok |-> FALSE, db |-> d ]

\* An upsert whose row carries a user other than the one it is given.
UpsertLinkOtherUser(d, personId, itemId, userId) ==
    IF \E l \in d.links : l.personId = personId /\ l.storageItemId = itemId
    THEN d
    ELSE [d EXCEPT !.links = @ \cup {[personId |-> personId, storageItemId |-> itemId,
                                      userId |-> CHOOSE u \in Users : u # userId]}]

\* prisma.personStorageItem.upsert on (personId, storageItemId), update: {}
UpsertLink(d, personId, itemId, userId) ==
    IF \E l \in d.links : l.personId = personId /\ l.storageItemId = itemId
    THEN d
    ELSE [d EXCEPT !.links = @ \cup {[personId |-> personId, storageItemId |-> itemId,
                                      userId |-> userId]}]

\* the face action is rejected before any store access
FaceMalformed(face) == face.boundingBox = None

\* The errors createFace rethrows: the two Errors it constructs itself, a
\* rejection by the store, and the TypeError of reading person.id when
\* findOrCreatePerson has returned null.
ErrInvalidFace == "Invalid face data, need bounding box"
ErrItemNotFound == "Storage item not found"
ErrStore == "PrismaClientKnownRequestError"
ErrTypeError == "TypeError"
ErrNotFound == "NotFoundError"

CreateFace(d, face, itemId) ==
    IF FaceMalformed(face)
    THEN [ ok |-> FALSE, db |-> d, error |-> ErrInvalidFace ]
    ELSE IF ~ItemPresent(d, itemId)
    THEN [ ok |-> FALSE, db |-> d, error |-> ErrItemNotFound ]
    ELSE LET userId == d.items[itemId].userId
             res    == FindOrCreatePerson(d, face, userId)
         IN  IF ~res.ok
             THEN [ ok |-> FALSE, db |-> res.db, error |-> ErrStore ]
             ELSE IF res.personId = NoId
             THEN [ ok |-> FALSE, db |-> res.db, error |-> ErrTypeError ]
             ELSE LET fc == FaceCreate(res.db, face, itemId, res.personId)
                  IN  IF ~fc.ok
                      THEN [ ok |-> FALSE, db |-> fc.db, error |-> ErrStore ]
                      ELSE [ ok |-> TRUE, db |-> UpsertLink(fc.db, res.personId, itemId, userId),
                             error |-> None ]


(***************************************************************************)
(* Enrichment payloads (req.body.data). A media meta entry is {type,       *)
(* payload}; a face is the object createFace destructures.                 *)
(***************************************************************************)
mGeo  == [type |-> "GEO",   payload |-> "a"]
mOcr  == [type |-> "OCR",   payload |-> "b"]
\* "BOGUS" is no member of enum MetaType: the store rejects the create
mBad  == [type |-> "BOGUS", payload |-> "a"]
\* an entry processEnrichment skips: its payload is {}
mSkip == [type |-> "GEO",   payload |-> EmptyPayload]

\* action and detectionId are fields a caller may send; createFace does not
\* destructure them
fNew   == [boundingBox |-> "box", personId |-> NoId, name |-> "alice", type |-> None, profileS3Key |-> "k1",
           action |-> None, detectionId |-> NoId]
fNoBox == [boundingBox |-> None,  personId |-> NoId, name |-> "bob",   type |-> None, profileS3Key |-> "k2",
           action |-> None, detectionId |-> NoId]

\* a face of a new person that brings no profile image reference
fNoPic == [fNew EXCEPT !.name = "bob", !.profileS3Key = None]

\* an update action that carries no detection id
fUpdate == [fNew EXCEPT !.action = "update"]

\* a delete action: the id of the detection to remove and nothing else
fDelete == [fNoBox EXCEPT !.action = "delete", !.name = None, !.profileS3Key = None,
                          !.detectionId = 2]

\* a face that names an existing person by id and brings another picture key
fKnown == [fNew EXCEPT !.personId = 1, !.profileS3Key = "k2"]

Data(m, f) == [defined |-> TRUE, mediaMeta |-> m, faces |-> f]

\* a request body without "data": processEnrichment receives undefined
Undefined == [defined |-> FALSE, mediaMeta |-> <<>>, faces |-> <<>>]

\* the most entries one list of a payload holds
MaxEntries == 3

Payloads ==
    { Undefined,
      Data(<<>>, <<>>),
      Data(<<mGeo>>, <<>>),
      Data(<<mSkip>>, <<>>),
      Data(<<mGeo, mOcr>>, <<>>),
      Data(<<mGeo>>, <<fNew>>),
      Data(<<mBad, mGeo>>, <<fNew>>),
      Data(<<>>, <<fNew>>),
      Data(<<>>, <<fKnown>>),
      Data(<<>>, <<fNoPic>>),
      Data(<<>>, <<fUpdate>>),
      Data(<<>>, <<fDelete>>),
      Data(<<>>, <<fNoBox, fNew, fNew>>),
      Data(<<>>, <<fNew, fNoBox, fNew>>),
      Data(<<>>, <<fNew, fNew, fNoBox>>) }

(***************************************************************************)
(* processEnrichment and processEnrichmentHandler. A caller record holds   *)
(* the position of one invocation: the media meta creates and the face     *)
(* creates that Promise.all has started and that have not settled yet, and *)
(* the response once the handler has answered. A start that settles after  *)
(* Promise.all rejected still runs: nothing cancels it.                    *)
(***************************************************************************)
IdleCaller ==
    [ pc |-> "idle", id |-> None, data |-> Undefined, metaPending |-> {}, facePending |-> {},
      status |-> 0, message |-> None, solo |-> FALSE, prev |-> <<>>, error |-> None ]

Running(r) == r.pc \in {"meta", "faces", "stamp"} \/ r.metaPending # {} \/ r.facePending # {}

MsgNotFound == "Storage item not found"
MsgProcessed == "Enrichment data processed successfully"
MsgNoUpdates == "No updates were made"
MsgThrown == "error passed to next()"

\* the handler without its "if (!result.success)" branch
RespondAlways200(r, success, message) ==
    [r EXCEPT !.pc = "done", !.status = 200, !.message = message]

\* the handler's answer: 400 for a result without success, 200 otherwise,
\* next(error) for a throw
Respond(r, success, message) ==
    [r EXCEPT !.pc = "done", !.status = IF success THEN 200 ELSE 400, !.message = message]

Thrown(r) == [r EXCEPT !.pc = "done", !.status = 500, !.message = MsgThrown]

\* the error createFace has thrown, as next() receives it
ThrownWith(r, error) == [Thrown(r) EXCEPT !.error = error]

\* lines 50-60: the processedAt update is awaited only with hasUpdates
AfterFaces(r, hasUpdates) ==
    IF hasUpdates THEN [r EXCEPT !.pc = "stamp"] ELSE Respond(r, TRUE, MsgNoUpdates)

\* lines 41-48: every createFace is started; one without a bounding box
\* rejects at once and Promise.all with it
EnterFaces(r, hasUpdates) ==
    LET faces == r.data.faces
        idx   == DOMAIN faces
        good  == {k \in idx : ~FaceMalformed(faces[k])}
    IN  IF idx = {}
        THEN AfterFaces(r, hasUpdates)
        ELSE IF good # idx
             THEN ThrownWith([r EXCEPT !.facePending = good], ErrInvalidFace)
             ELSE [r EXCEPT !.pc = "faces", !.facePending = good]

\* lines 18-39: every entry that is not skipped starts its createMediaMeta
EnterMeta(r) ==
    LET metas == r.data.mediaMeta
        idx   == DOMAIN metas
        live  == {k \in idx : ~MetaSkipped(metas[k])}
    IN  IF idx = {}
        THEN EnterFaces(r, FALSE)
        ELSE IF live = {}
             THEN EnterFaces(r, TRUE)
             ELSE [r EXCEPT !.pc = "meta", !.metaPending = live]

\* what the replay comparison looks at: the rows of one item, without their ids
View(d, id) ==
    [ meta  |-> [t \in MetaType |-> Cardinality({m \in d.mediaMeta : m.itemId = id /\ m.type = t})],
      metaValues |-> {<<m.type, m.payload>> : m \in {x \in d.mediaMeta : x.itemId = id}},
      faces |-> Cardinality({f \in d.face : f.storageItemId = id}),
      links |-> Cardinality({l \in d.links : l.storageItemId = id}),
      people |-> Cardinality(d.people),
      pictures |-> Cardinality(d.pictures) ]

\* bookkeeping of the replay comparison when caller c answers
Finish(c, r, d) ==
    IF r.pc = "done" /\ cb[c].pc # "done"
    THEN lastDone' = IF r.status = 200 /\ r.solo
                     THEN <<[id |-> r.id, data |-> r.data, view |-> View(d, r.id)]>>
                     ELSE <<>>
    ELSE UNCHANGED lastDone

\* getStorageItemById, then the synchronous part up to the first Promise.all
\* Callers are the slots of the server's in-flight requests: a request takes
\* the first free one. Two requests overlap only as a delivery and its retry
\* (the same item, the same payload); other requests follow one another.
FreeSlot == IF ~Running(cb["c1"]) THEN "c1" ELSE "c2"

Start(c, id, data) ==
    /\ calls < MaxCalls
    /\ c = FreeSlot
    /\ ~Running(cb[c])
    /\ \A o \in Callers \ {c} : Running(cb[o]) => cb[o].id = id /\ cb[o].data = data
    /\ calls' = calls + 1
    /\ LET alone == \A o \in Callers \ {c} : ~Running(cb[o])
           r0 == [IdleCaller EXCEPT !.id = id, !.data = data, !.solo = alone,
                                    !.prev = IF alone THEN lastDone ELSE <<>>]
           r1 == IF ~ItemPresent(db, id)
                 THEN Respond(r0, FALSE, MsgNotFound)
                 ELSE IF ~data.defined
                      THEN Thrown(r0)
                      ELSE EnterMeta(r0)
       IN  /\ cb' = [o \in Callers |-> IF o = c THEN r1 ELSE [cb[o] EXCEPT !.solo = FALSE]]
           /\ Finish(c, r1, db)
    /\ UNCHANGED <<db, now, ldb, lcb, ops>>

\* one started createMediaMeta settles
MetaTask(c, k) ==
    /\ k \in cb[c].metaPending
    /\ LET r   == cb[c]
           res == CreateMediaMeta(db, r.data.mediaMeta[k], r.id)
           r1  == [r EXCEPT !.metaPending = @ \ {k}]
           r2  == IF r.pc # "meta" THEN r1
                  ELSE IF ~res.ok THEN Thrown(r1)
                  ELSE IF r1.metaPending = {} THEN EnterFaces(r1, TRUE)
                  ELSE r1
       IN  /\ db' = res.db
           /\ cb' = [cb EXCEPT ![c] = r2]
           /\ Finish(c, r2, res.db)
    /\ UNCHANGED <<now, calls, ldb, lcb, ops>>

\* one started createFace settles
FaceTask(c, k) ==
    /\ k \in cb[c].facePending
    /\ LET r   == cb[c]
           res == CreateFace(db, r.data.faces[k], r.id)
           r1  == [r EXCEPT !.facePending = @ \ {k}]
           r2  == IF r.pc # "faces" THEN r1
                  ELSE IF ~res.ok THEN ThrownWith(r1, res.error)
                  ELSE IF r1.facePending = {} THEN AfterFaces(r1, TRUE)
                  ELSE r1
       IN  /\ db' = res.db
           /\ cb' = [cb EXCEPT ![c] = r2]
           /\ Finish(c, r2, res.db)
    /\ UNCHANGED <<now, calls, ldb, lcb, ops>>

\* prisma.storageItem.update({processedAt: new Date()}) and the success result
StampProcessedAt(d, id, t) ==
    IF ItemPresent(d, id)
    THEN [ ok |-> TRUE, db |-> [d EXCEPT !.items[id].processedAt = t] ]
    ELSE [ ok |-> FALSE, db |-> d ]

Stamp(c) ==
    /\ cb[c].pc = "stamp"
    /\ LET r   == cb[c]
           res == StampProcessedAt(db, r.id, now)
           r1  == IF res.ok THEN Respond(r, TRUE, MsgProcessed) ELSE Thrown(r)
       IN  /\ db' = res.db
           /\ cb' = [cb EXCEPT ![c] = r1]
           /\ Finish(c, r1, res.db)
    /\ now' = now + 1
    /\ UNCHANGED <<calls, ldb, lcb, ops>>

(***************************************************************************)
(* createProfilePictureFromFace (Face/face.service.js): a thumbnail of the *)
(* face is cut and uploaded, then the person's picture row is written.     *)
(***************************************************************************)
IdlePicture == [pc |-> "idle", personId |-> NoId, uri |-> None, existing |-> FALSE, ok |-> TRUE]

PictureUris == {"k3"}

\* The image is fetched, cropped and uploaded; when that fails the function
\* returns {success: false}.  Then profilePicture.findUnique({personId}).
PictureStart(personId, uri, uploaded) ==
    /\ calls < MaxCalls
    /\ ops.pc \in {"idle", "done"}
    /\ calls' = calls + 1
    /\ ops' = IF ~uploaded
              THEN [IdlePicture EXCEPT !.pc = "done", !.personId = personId, !.uri = uri,
                                       !.ok = FALSE]
              ELSE [IdlePicture EXCEPT !.pc = "write", !.personId = personId, !.uri = uri,
                                       !.existing = \E q \in db.pictures : q.personId = personId]
    /\ UNCHANGED <<db, cb, now, lastDone, ldb, lcb>>

\* profilePicture.update of the row found, else profilePicture.create.
WritePicture(d, personId, uri, existing) ==
    IF existing
    THEN IF \E q \in d.pictures : q.personId = personId
         THEN [ ok |-> TRUE,
                db |-> [d EXCEPT !.pictures = {IF q.personId = personId
                                               THEN [q EXCEPT !.s3Key = uri] ELSE q : q \in @}] ]
         ELSE [ ok |-> FALSE, db |-> d ]
    ELSE CreateProfilePicture(d, personId, uri)

PictureWrite ==
    /\ ops.pc = "write"
    /\ LET res == WritePicture(db, ops.personId, ops.uri, ops.existing)
       IN  /\ db' = res.db
           /\ ops' = [ops EXCEPT !.pc = "done", !.ok = res.ok]
    /\ UNCHANGED <<cb, now, calls, lastDone, ldb, lcb>>

InitCommon ==
    /\ db = EmptyDb
    /\ cb = [c \in Callers |-> IdleCaller]
    /\ now = 1
    /\ calls = 0
    /\ lastDone = <<>>
    /\ ldb = None
    /\ lcb = None
    /\ ops = IdlePicture

Init == InitCommon

Next ==
    \/ \E c \in Callers, id \in RequestIds, data \in Payloads : Start(c, id, data)
    \/ \E c \in Callers, k \in 1..MaxEntries : MetaTask(c, k)
    \/ \E c \in Callers, k \in 1..MaxEntries : FaceTask(c, k)
    \/ \E c \in Callers : Stamp(c)
    \/ \E q \in db.people, uri \in PictureUris, uploaded \in BOOLEAN :
          PictureStart(q.id, uri, uploaded)
    \/ PictureWrite

Spec == Init /\ [][Next]_vars


(***************************************************************************)
(* The linked-category merge: updateEnrichmentData and its handler.  The   *)
(* item row carries one link id per metadata category; every awaited store *)
(* call is a step at which another callback may run.                       *)
(***************************************************************************)
Categories == {"geo", "ocr", "transcript", "keyword", "label", "customLabel", "moderation"}

CatOrder == <<"geo", "ocr", "transcript", "keyword", "label", "customLabel", "moderation">>

\* A category of the payload: val is the shaped value, raw tells whether a
\* rawResponse comes with it.  For moderationData, labels holds the
\* confidences of moderationLabels, rawLabels those of
\* rawResponse.ModerationLabels, and supplied tells whether isSafe is given.
Absent ==
    [ present |-> FALSE, val |-> None, raw |-> FALSE,
      labels |-> <<>>, rawLabels |-> <<>>, supplied |-> FALSE, isSafe |-> FALSE ]

NoCategories == [x \in Categories |-> Absent]

EmptyLegacyDb ==
    [ items         |-> [i \in ItemIds |->
                           [ present |-> TRUE, processedAt |-> 0, rawMetadata |-> {},
                             link |-> [x \in Categories |-> NoId] ]],
      recs          |-> {},
      person        |-> {},
      faceDetection |-> {},
      nextId        |-> 1 ]

\* The guards `if (data?.X ...)` of the seven categories.
CategoryGiven(data, x) ==
    /\ data.defined
    /\ data.cat[x].present
    /\ (x \in {"label", "customLabel", "moderation"})
          => (data.cat[x].val # None \/ data.cat[x].raw)

\* updates.rawMetadata: the item's raw metadata with the raw responses of
\* the payload spread over it.
MergeRawMetadata(old, data) ==
    IF ~data.defined THEN old
    ELSE old \cup (IF data.rekognitionMeta THEN {"rekognition"} ELSE {})
             \cup (IF data.cat["ocr"].present /\ data.cat["ocr"].raw THEN {"textract"} ELSE {})
             \cup (IF data.cat["label"].present /\ data.cat["label"].raw THEN {"labels"} ELSE {})
             \cup (IF data.cat["moderation"].present /\ data.cat["moderation"].raw
                   THEN {"moderation"} ELSE {})
             \cup (IF data.celebrityData THEN {"celebrities"} ELSE {})
             \cup (IF data.cat["customLabel"].present /\ data.cat["customLabel"].raw
                   THEN {"customLabels"} ELSE {})

\* The value a category record stores: the shaped value when given, else
\* what the extract helper derives from the raw response, else empty.
StoredVal(p) == IF p.val # None THEN p.val ELSE IF p.raw THEN "fromRaw" ELSE "empty"

\* A variant that takes a confidence of 80 for sensitive.
HasSensitiveContentFrom80(p) ==
    \/ p.raw /\ \E k \in DOMAIN p.rawLabels : p.rawLabels[k] >= 80
    \/ p.val # None /\ \E k \in DOMAIN p.labels : p.labels[k] >= 80

\* hasSensitiveContent: a label of the raw response or of the shaped list has
\* a confidence above 80.
HasSensitiveContent(p) ==
    \/ p.raw /\ \E k \in DOMAIN p.rawLabels : p.rawLabels[k] > 80
    \/ p.val # None /\ \E k \in DOMAIN p.labels : p.labels[k] > 80

\* The isSafe column: the supplied value when isSafe !== undefined.  Only a
\* moderation record has the column; the records of the other categories
\* carry FALSE here.
IsSafe(x, p) ==
    IF x # "moderation" THEN FALSE
    ELSE IF p.supplied THEN p.isSafe ELSE ~HasSensitiveContent(p)

\* One category block: update the record the item read at the start links,
\* else create a record.  An update of a record that does not exist throws.
MergeCategory(d, item, x, p) ==
    IF item.link[x] # NoId
    THEN IF \E r \in d.recs : r.id = item.link[x] /\ r.cat = x
         THEN [ ok |-> TRUE, id |-> item.link[x],
                db |-> [d EXCEPT !.recs =
                          { IF r.id = item.link[x] /\ r.cat = x
                            THEN [r EXCEPT !.val = StoredVal(p), !.isSafe = IsSafe(x, p),
                                           !.raw = IF x = "ocr" THEN p.raw ELSE (p.raw \/ r.raw)]
                            ELSE r : r \in d.recs }] ]
         ELSE [ ok |-> FALSE, id |-> NoId, db |-> d ]
    ELSE [ ok |-> TRUE, id |-> d.nextId,
           db |-> [d EXCEPT !.recs = @ \cup {[ id |-> d.nextId, cat |-> x,
                                               val |-> StoredVal(p), raw |-> p.raw,
                                               isSafe |-> IsSafe(x, p) ]},
                            !.nextId = @ + 1] ]

InSeq(a, s) == \E k \in DOMAIN s : s[k] = a

MinId(S) == CHOOSE p \in S : \A q \in S : p.id <= q.id

\* prisma.person.findFirst by name or alias.
FindPersonByName(d, name) == {p \in d.person : p.name = name \/ InSeq(name, p.aliases)}

LegacyPersonCreate(d, face, celebrity) ==
    [d EXCEPT !.person = @ \cup {[ id |-> d.nextId, name |-> face.name,
                                   aliases |-> face.aliases,
                                   isCelebrity |-> celebrity,
                                   celebrityInfo |-> face.info ]},
              !.nextId = @ + 1]

\* An alias merge that writes the action's celebrity flag as it comes.
MergeAliasesCopyFlag(d, person, face) ==
    LET newAliases == SelectSeq(face.aliases, LAMBDA a : ~InSeq(a, person.aliases))
    IN  IF Len(face.aliases) > 0 /\ Len(newAliases) > 0
        THEN [d EXCEPT !.person =
                { IF p.id = person.id
                  THEN [p EXCEPT !.aliases = person.aliases \o newAliases,
                                 !.isCelebrity = face.isCelebrity,
                                 !.celebrityInfo = face.info]
                  ELSE p : p \in d.person }]
        ELSE d

\* The alias merge of a create action that resolved to an existing person.
MergeAliases(d, person, face) ==
    LET newAliases == SelectSeq(face.aliases, LAMBDA a : ~InSeq(a, person.aliases))
    IN  IF Len(face.aliases) > 0 /\ Len(newAliases) > 0
        THEN [d EXCEPT !.person =
                { IF p.id = person.id
                  THEN [p EXCEPT !.aliases = person.aliases \o newAliases,
                                 !.isCelebrity = IF face.isCelebrity /\ face.info
                                                 THEN TRUE ELSE @,
                                 !.celebrityInfo = IF face.isCelebrity /\ face.info
                                                   THEN TRUE ELSE @]
                  ELSE p : p \in d.person }]
        ELSE d

\* prisma.faceDetection.create; the person and the item must exist.
DetectionCreate(d, itemId, personId, box) ==
    IF (\E p \in d.person : p.id = personId) /\ d.items[itemId].present
    THEN [ ok |-> TRUE,
           db |-> [d EXCEPT !.faceDetection = @ \cup {[ id |-> d.nextId,
                                                       storageItemId |-> itemId,
                                                       personId |-> personId,
                                                       boundingBox |-> box ]},
                            !.nextId = @ + 1] ]
    ELSE [ ok |-> FALSE, db |-> d ]

\* A face entry with action "create".
FaceActionCreate(d, face, itemId) ==
    LET byName == face.personId = NoId /\ face.name # None
        found  == FindPersonByName(d, face.name)
        d1     == IF ~byName THEN d
                  ELSE IF found = {} THEN LegacyPersonCreate(d, face, face.isCelebrity)
                  ELSE MergeAliases(d, MinId(found), face)
        pid    == IF ~byName THEN face.personId
                  ELSE IF found = {} THEN d.nextId ELSE MinId(found).id
    IN  IF pid # NoId
        THEN LET res == DetectionCreate(d1, itemId, pid, face.boundingBox)
             IN  [ ok |-> res.ok, db |-> IF res.ok THEN res.db ELSE d1 ]
        ELSE [ ok |-> TRUE, db |-> d1 ]

\* A face entry with action "update" and a detection id.
FaceActionUpdate(d, face) ==
    LET byName == face.personId = NoId /\ face.name # None
        found  == FindPersonByName(d, face.name)
        d1     == IF byName /\ found = {} THEN LegacyPersonCreate(d, face, face.isCelebrity)
                  ELSE d
        pid    == IF face.personId # NoId THEN face.personId
                  ELSE IF ~byName THEN NoId
                  ELSE IF found = {} THEN d.nextId ELSE MinId(found).id
    IN  IF /\ \E f \in d1.faceDetection : f.id = face.detectionId
           /\ pid # NoId => \E p \in d1.person : p.id = pid
        THEN [ ok |-> TRUE,
               db |-> [d1 EXCEPT !.faceDetection =
                         { IF f.id = face.detectionId
                           THEN [f EXCEPT !.boundingBox = face.boundingBox,
                                          !.personId = IF pid # NoId THEN pid ELSE @]
                           ELSE f : f \in d1.faceDetection }] ]
        ELSE [ ok |-> FALSE, db |-> d1 ]

\* One entry of the loop over data.faces.
FaceAction(d, face, itemId) ==
    IF face.action = "create" THEN FaceActionCreate(d, face, itemId)
    ELSE IF face.action = "update" /\ face.detectionId # NoId THEN FaceActionUpdate(d, face)
    ELSE [ ok |-> TRUE, db |-> d ]

\* The explicit deletions after the loop.
DetectionIdsToDelete(faces) ==
    {faces[k].detectionId : k \in {j \in DOMAIN faces :
                                     faces[j].action = "delete" /\ faces[j].detectionId # NoId}}

FaceDeletes(d, faces) ==
    [d EXCEPT !.faceDetection = {f \in @ : f.id \notin DetectionIdsToDelete(faces)}]

\* One entry of processRawFaceResponse: a raw provider response, its box
\* given in fractions and stored times 100.
RawFace(d, face, itemId) ==
    IF ~face.raw THEN [ ok |-> TRUE, db |-> d ]
    ELSE LET celeb == face.isCelebrity /\ face.name # None
             found == {p \in d.person : p.name = face.name /\ p.isCelebrity}
             d1    == IF celeb /\ found = {} THEN LegacyPersonCreate(d, face, TRUE) ELSE d
             pid   == IF celeb THEN (IF found = {} THEN d.nextId ELSE MinId(found).id)
                      ELSE face.personId
         IN  IF pid = NoId THEN [ ok |-> TRUE, db |-> d1 ]
             ELSE LET res == DetectionCreate(d1, itemId, pid, face.boundingBox * 100)
                  IN  [ ok |-> res.ok, db |-> IF res.ok THEN res.db ELSE d1 ]

\* A write that replaces every link column, the absent ones included.
WriteItemAllLinks(d, id, updates) ==
    IF d.items[id].present
    THEN [ ok |-> TRUE,
           db |-> [d EXCEPT !.items[id] =
                     [@ EXCEPT !.processedAt = updates.processedAt,
                               !.rawMetadata = updates.rawMetadata,
                               !.link = updates.link]] ]
    ELSE [ ok |-> FALSE, db |-> d ]

\* prisma.storageItem.update with the collected updates: processedAt, the
\* raw metadata and the link ids of the categories that were merged.
WriteItem(d, id, updates) ==
    IF d.items[id].present
    THEN [ ok |-> TRUE,
           db |-> [d EXCEPT !.items[id] =
                     [@ EXCEPT !.processedAt = updates.processedAt,
                               !.rawMetadata = updates.rawMetadata,
                               !.link = [x \in Categories |->
                                           IF updates.link[x] # NoId THEN updates.link[x]
                                           ELSE @[x]]]] ]
    ELSE [ ok |-> FALSE, db |-> d ]

(***************************************************************************)
(* Payloads of the linked-category callback.                               *)
(***************************************************************************)
LData(cats, faces) ==
    [ defined |-> TRUE, cat |-> cats, rekognitionMeta |-> FALSE,
      celebrityData |-> FALSE, faces |-> faces ]

LUndefined ==
    [ defined |-> FALSE, cat |-> NoCategories, rekognitionMeta |-> FALSE,
      celebrityData |-> FALSE, faces |-> <<>> ]

Given(v, raw) == [Absent EXCEPT !.present = TRUE, !.val = v, !.raw = raw]

\* moderationData with its shaped labels
Shaped(labels) == [Given("m", FALSE) EXCEPT !.labels = labels]

\* moderationData with a raw response
WithRaw(p, rawLabels) == [p EXCEPT !.raw = TRUE, !.rawLabels = rawLabels]

\* moderationData that supplies isSafe
WithIsSafe(p, isSafe) == [p EXCEPT !.supplied = TRUE, !.isSafe = isSafe]

OnlyCat(x, p) == [y \in Categories |-> IF y = x THEN p ELSE Absent]

lfAlice ==
    [ action |-> "create", personId |-> NoId, name |-> "alice", aliases |-> <<>>,
      isCelebrity |-> FALSE, info |-> FALSE, detectionId |-> NoId, raw |-> FALSE,
      boundingBox |-> 5000 ]

lfUpdateGone == [lfAlice EXCEPT !.action = "update", !.name = None, !.detectionId = 99]

lfDelete == [lfAlice EXCEPT !.action = "delete", !.name = None, !.detectionId = 3]

lfAliceAl == [lfAlice EXCEPT !.aliases = <<"al">>]

lfCeleb == [lfAlice EXCEPT !.isCelebrity = TRUE, !.info = TRUE]

lfCelebAl == [lfAlice EXCEPT !.isCelebrity = TRUE, !.info = TRUE, !.aliases = <<"al">>]

lfRaw == [lfAlice EXCEPT !.raw = TRUE, !.isCelebrity = TRUE, !.info = TRUE, !.boundingBox = 50]

LPayloads ==
    { LUndefined,
      LData(NoCategories, <<>>),
      LData(OnlyCat("geo", Given("a", FALSE)), <<>>),
      LData(OnlyCat("geo", Given("b", FALSE)), <<>>),
      LData(OnlyCat("ocr", Given(None, TRUE)), <<lfAlice>>),
      LData(OnlyCat("ocr", Given("a", FALSE)), <<lfUpdateGone>>),
      LData(NoCategories, <<lfAliceAl>>),
      LData(NoCategories, <<lfCeleb>>),
      LData(NoCategories, <<lfCelebAl>>),
      LData(OnlyCat("label", Given(None, FALSE)), <<>>),
      LData([OnlyCat("label", Given("a", TRUE)) EXCEPT !["moderation"] = Given("a", FALSE)],
            <<lfDelete>>),
      LData(OnlyCat("moderation", Shaped(<<50>>)), <<>>),
      LData(OnlyCat("moderation", Shaped(<<80>>)), <<>>),
      LData(OnlyCat("moderation", Shaped(<<50, 81>>)), <<>>),
      LData(OnlyCat("moderation", WithRaw(Shaped(<<50>>), <<90>>)), <<>>),
      LData(OnlyCat("moderation", WithRaw(Given(None, FALSE), <<50>>)), <<>>),
      LData(OnlyCat("moderation", WithIsSafe(Shaped(<<90>>), TRUE)), <<>>),
      LData(OnlyCat("moderation", WithIsSafe(Shaped(<<50>>), FALSE)), <<>>),
      [LData(NoCategories, <<lfRaw>>) EXCEPT !.rekognitionMeta = TRUE, !.celebrityData = TRUE] }

(***************************************************************************)
(* updateStorageItemEnrichment -> updateEnrichmentData, step by step.      *)
(***************************************************************************)
NoItem ==
    [ present |-> FALSE, processedAt |-> 0, rawMetadata |-> {},
      link |-> [x \in Categories |-> NoId] ]

NoUpdates == [processedAt |-> 0, rawMetadata |-> {}, link |-> [x \in Categories |-> NoId]]

IdleLegacy ==
    [ pc |-> "idle", id |-> None, data |-> LUndefined, item |-> NoItem,
      updates |-> NoUpdates, k |-> 0, status |-> 0, message |-> None, solo |-> TRUE ]

LBusy(r) == r.pc \notin {"idle", "done"}

MsgCaught == "error.message"

MsgStored == "Enrichment data stored successfully"

\* The handler: 400 when the result is not a success, else 200.
LRespond(r, success, message) ==
    [r EXCEPT !.pc = "done", !.status = IF success THEN 200 ELSE 400, !.message = message]

\* The categories at position k or later that the payload carries.
CatsFrom(data, k) == {j \in k..Len(CatOrder) : CategoryGiven(data, CatOrder[j])}

Min(S) == CHOOSE a \in S : \A b \in S : a <= b

HasFaces(data) == data.defined /\ Len(data.faces) > 0

\* Where the function continues once the category blocks before k are done.
Continue(r, k) ==
    IF CatsFrom(r.data, k) # {}
    THEN [r EXCEPT !.pc = "category", !.k = Min(CatsFrom(r.data, k))]
    ELSE IF HasFaces(r.data) THEN [r EXCEPT !.pc = "faces", !.k = 1]
    ELSE [r EXCEPT !.pc = "write", !.k = 0]

\* Where it continues after the face entry k.
ContinueFaces(r, k) ==
    IF k < Len(r.data.faces) THEN [r EXCEPT !.pc = "faces", !.k = k + 1]
    ELSE IF ~r.data.faces[1].raw /\ DetectionIdsToDelete(r.data.faces) # {}
    THEN [r EXCEPT !.pc = "deletes", !.k = 0]
    ELSE [r EXCEPT !.pc = "write", !.k = 0]

\* The callbacks in flight for one item are deliveries of that item's
\* results; callbacks of different items do not overlap here.
LFreeSlot(c, id) ==
    /\ ~LBusy(lcb[c])
    /\ \A o \in Callers : LBusy(lcb[o]) => lcb[o].id = id
    /\ c = (IF ~LBusy(lcb["c1"]) THEN "c1" ELSE "c2")

LLoseSolo(cbs, c) ==
    [o \in Callers |-> IF o # c /\ LBusy(cbs[o]) THEN [cbs[o] EXCEPT !.solo = FALSE] ELSE cbs[o]]

\* findUnique of the item, the not-found answer, and the initial updates.
LStart(c, id, data) ==
    /\ calls < MaxCalls
    /\ LFreeSlot(c, id)
    /\ calls' = calls + 1
    /\ now' = now + 1
    /\ LET r0 == [IdleLegacy EXCEPT !.id = id, !.data = data,
                                    !.solo = \A o \in Callers : ~LBusy(lcb[o])]
       IN  IF id \notin ItemIds \/ ~ldb.items[id].present
           THEN lcb' = [lcb EXCEPT ![c] = LRespond(r0, FALSE, MsgNotFound)]
           ELSE lcb' = LLoseSolo(
                         [lcb EXCEPT ![c] =
                            Continue([r0 EXCEPT !.item = ldb.items[id],
                                                !.updates = [ processedAt |-> now,
                                                              rawMetadata |-> MergeRawMetadata(
                                                                  ldb.items[id].rawMetadata, data),
                                                              link |-> [x \in Categories |-> NoId] ]],
                                     1)], c)
    /\ UNCHANGED <<ldb, db, cb, lastDone, ops>>

\* One category block.
LCategory(c) ==
    /\ lcb[c].pc = "category"
    /\ LET r   == lcb[c]
           x   == CatOrder[r.k]
           res == MergeCategory(ldb, r.item, x, r.data.cat[x])
       IN  /\ ldb' = res.db
           /\ lcb' = [lcb EXCEPT ![c] =
                        IF res.ok
                        THEN Continue([r EXCEPT !.updates.link[x] = res.id], r.k + 1)
                        ELSE LRespond(r, FALSE, MsgCaught)]
    /\ UNCHANGED <<db, cb, now, calls, lastDone, ops>>

\* One entry of data.faces, through the raw path when the first entry is a
\* raw provider response.
LFace(c) ==
    /\ lcb[c].pc = "faces"
    /\ LET r   == lcb[c]
           f   == r.data.faces[r.k]
           res == IF r.data.faces[1].raw THEN RawFace(ldb, f, r.id)
                  ELSE FaceAction(ldb, f, r.id)
       IN  /\ ldb' = res.db
           /\ lcb' = [lcb EXCEPT ![c] =
                        IF res.ok THEN ContinueFaces(r, r.k)
                        ELSE LRespond(r, FALSE, MsgCaught)]
    /\ UNCHANGED <<db, cb, now, calls, lastDone, ops>>

\* faceDetection.deleteMany of the delete entries.
LDeletes(c) ==
    /\ lcb[c].pc = "deletes"
    /\ ldb' = FaceDeletes(ldb, lcb[c].data.faces)
    /\ lcb' = [lcb EXCEPT ![c] = [@ EXCEPT !.pc = "write"]]
    /\ UNCHANGED <<db, cb, now, calls, lastDone, ops>>

\* The single update of the item and the answer.
LWrite(c) ==
    /\ lcb[c].pc = "write"
    /\ LET r   == lcb[c]
           res == WriteItem(ldb, r.id, r.updates)
       IN  /\ ldb' = res.db
           /\ lcb' = [lcb EXCEPT ![c] =
                        IF res.ok THEN LRespond(r, TRUE, MsgStored)
                        ELSE LRespond(r, FALSE, MsgCaught)]
    /\ UNCHANGED <<db, cb, now, calls, lastDone, ops>>

(***************************************************************************)
(* findOrCreatePerson(name, aliases) of Person/person.service.js, behind   *)
(* POST /find-or-create, over the same person table.                       *)
(***************************************************************************)
\* `mode: "insensitive"` compares names without regard to case.
Lower(name) == IF name = "Alice" THEN "alice" ELSE name

Names == {"alice", "Alice"}

AliasLists == {<<>>, <<"al">>, <<"al", "al">>}

IdleFind == [pc |-> "idle", name |-> None, aliases |-> <<>>, person |-> NoId, found |-> <<>>]

FindBusy(o) == o.pc \notin {"idle", "done"}

FindSlot == IF ~FindBusy(ops["c1"]) THEN "c1" ELSE "c2"

\* What follows the lookups: a create, a push of the new aliases, or nothing.
AfterFind(o, found) ==
    IF found = {} THEN [o EXCEPT !.pc = "create"]
    ELSE LET person     == MinId(found)
             newAliases == SelectSeq(o.aliases, LAMBDA a : ~InSeq(a, person.aliases))
         IN  IF Len(o.aliases) > 0 /\ Len(newAliases) > 0
             THEN [o EXCEPT !.pc = "push", !.person = person.id, !.found = newAliases]
             ELSE [o EXCEPT !.pc = "done", !.person = person.id]

\* findFirst by name, case-insensitive.
FindByNameStart(t, name, aliases) ==
    /\ calls < MaxCalls
    /\ t = FindSlot
    /\ calls' = calls + 1
    /\ LET o     == [IdleFind EXCEPT !.name = name, !.aliases = aliases]
           found == {q \in ldb.person : Lower(q.name) = Lower(name)}
       IN  ops' = [ops EXCEPT ![t] = IF found = {} THEN [o EXCEPT !.pc = "byAlias"]
                                     ELSE AfterFind(o, found)]
    /\ UNCHANGED <<ldb, lcb, db, cb, now, lastDone>>

\* findFirst of a person whose aliases have the name.
FindByAlias(t) ==
    /\ ops[t].pc = "byAlias"
    /\ ops' = [ops EXCEPT ![t] = AfterFind(@, {q \in ldb.person : InSeq(ops[t].name, q.aliases)})]
    /\ UNCHANGED <<ldb, lcb, db, cb, now, calls, lastDone>>

\* person.create({name, aliases}).
FindCreate(t) ==
    /\ ops[t].pc = "create"
    /\ ldb' = [ldb EXCEPT !.person = @ \cup {[ id |-> ldb.nextId, name |-> ops[t].name,
                                               aliases |-> ops[t].aliases,
                                               isCelebrity |-> FALSE,
                                               celebrityInfo |-> FALSE ]},
                          !.nextId = @ + 1]
    /\ ops' = [ops EXCEPT ![t] = [@ EXCEPT !.pc = "done", !.person = ldb.nextId]]
    /\ UNCHANGED <<lcb, db, cb, now, calls, lastDone>>

\* person.update({aliases: {push: newAliases}}): appended to the row as it
\* is now.
FindPush(t) ==
    /\ ops[t].pc = "push"
    /\ ldb' = [ldb EXCEPT !.person =
                 { IF q.id = ops[t].person THEN [q EXCEPT !.aliases = @ \o ops[t].found] ELSE q
                   : q \in ldb.person }]
    /\ ops' = [ops EXCEPT ![t] = [@ EXCEPT !.pc = "done"]]
    /\ UNCHANGED <<lcb, db, cb, now, calls, lastDone>>

InitLegacy ==
    /\ db = EmptyDb
    /\ cb = [c \in Callers |-> IdleCaller]
    /\ now = 1
    /\ calls = 0
    /\ lastDone = <<>>
    /\ ldb = EmptyLegacyDb
    /\ lcb = [c \in Callers |-> IdleLegacy]
    /\ ops = [t \in Callers |-> IdleFind]

NextLegacy ==
    \/ \E c \in Callers, id \in RequestIds, data \in LPayloads : LStart(c, id, data)
    \/ \E c \in Callers : LCategory(c)
    \/ \E c \in Callers : LFace(c)
    \/ \E c \in Callers : LDeletes(c)
    \/ \E c \in Callers : LWrite(c)
    \/ \E t \in Callers, name \in Names, aliases \in AliasLists : FindByNameStart(t, name, aliases)
    \/ \E t \in Callers : FindByAlias(t)
    \/ \E t \in Callers : FindCreate(t)
    \/ \E t \in Callers : FindPush(t)

SpecLegacy == InitLegacy /\ [][NextLegacy]_vars

(***************************************************************************)
(* Deletion and orphan cleanup: deleteStorageItem (unnamed/part_001), the  *)
(* person service (unnamed/part_005) and the cleanup service               *)
(* (unnamed/part_007).  Relations of the schema are onDelete: Cascade.     *)
(***************************************************************************)
MaxOps == 3

\* The store after one callback with a GEO entry and a face for i1 and one
\* callback with a face for i2.
DeleteInitDb ==
    CreateFace(CreateFace(CreateMediaMeta(EmptyDb, mGeo, "i1").db, fNew, "i1").db, fNew, "i2").db

PersonIds == {p.id : p \in DeleteInitDb.people}

HasLink(d, pid) == \E l \in d.links : l.personId = pid

\* prisma.face.deleteMany({storageItemId})
DeleteFacesOfItem(d, id) == [d EXCEPT !.face = {f \in @ : f.storageItemId # id}]

\* prisma.mediaMeta.deleteMany({itemId})
DeleteMediaMetaOfItem(d, id) == [d EXCEPT !.mediaMeta = {m \in @ : m.itemId # id}]

\* prisma.storageItem.delete; its faces, media meta and links cascade.
DeleteItem(d, id) ==
    IF ItemPresent(d, id)
    THEN [ ok |-> TRUE,
           db |-> [d EXCEPT !.items[id].present = FALSE,
                            !.face = {f \in @ : f.storageItemId # id},
                            !.mediaMeta = {m \in @ : m.itemId # id},
                            !.links = {l \in @ : l.storageItemId # id}] ]
    ELSE [ ok |-> FALSE, db |-> d ]

\* Removal of person rows; their faces, links and pictures cascade.
RemovePeople(d, ids) ==
    [d EXCEPT !.people = {p \in @ : p.id \notin ids},
              !.face = {f \in @ : f.personId \notin ids},
              !.links = {l \in @ : l.personId \notin ids},
              !.pictures = {q \in @ : q.personId \notin ids}]

\* prisma.person.delete({id}); throws when the row does not exist.
PersonDelete(d, id) ==
    IF \E p \in d.people : p.id = id
    THEN [ ok |-> TRUE, db |-> RemovePeople(d, {id}) ]
    ELSE [ ok |-> FALSE, db |-> d ]

\* cleanupOrphanedPeople: one DELETE of the people no link row names.
CleanupOrphanedPeople(d) ==
    RemovePeople(d, {p.id : p \in {q \in d.people : ~HasLink(d, q.id)}})

\* The lookup of cleanupAfterStorageItemRemoval.
OrphanedAmong(d, ids) == {pid \in ids : (\E p \in d.people : p.id = pid) /\ ~HasLink(d, pid)}

\* removeStorageItemsFromPerson: deleteMany of the user's links.
RemoveStorageItemsFromPerson(d, personId, storageItemIds, userId) ==
    [d EXCEPT !.links = {l \in @ : ~(/\ l.personId = personId /\ l.userId = userId
                                     /\ l.storageItemId \in storageItemIds)}]

\* addStorageItemsToPerson for one item: the upsert; the foreign keys reject
\* a person or an item that does not exist.
AddStorageItemToPerson(d, personId, itemId, userId) ==
    IF (\E p \in d.people : p.id = personId) /\ ItemPresent(d, itemId)
    THEN [ ok |-> TRUE, db |-> UpsertLink(d, personId, itemId, userId) ]
    ELSE [ ok |-> FALSE, db |-> d ]

IdleOp ==
    [ kind |-> None, pc |-> "idle", personId |-> NoId, itemId |-> None, userId |-> None,
      ids |-> {}, hasFace |-> FALSE, hasMeta |-> FALSE, ok |-> TRUE, thrown |-> FALSE ]

OpBusy(o) == o.pc \notin {"idle", "done"}

OpSlot == IF ~OpBusy(ops.thr["c1"]) THEN "c1" ELSE "c2"

OpStart(t) ==
    /\ calls < MaxOps
    /\ t = OpSlot
    /\ ~OpBusy(ops.thr[t])
    /\ calls' = calls + 1

OpDone(o, ok) == [o EXCEPT !.pc = "done", !.ok = ok]

SetOp(t, o) == ops' = [ops EXCEPT !.thr[t] = o]

\* deleteStorageItem: the lookup with its includes, and the two refusals.
DeleteStorageItemStart(t, id, userId) ==
    /\ OpStart(t)
    /\ LET o == [IdleOp EXCEPT !.kind = "deleteStorageItem", !.itemId = id, !.userId = userId]
       IN  IF ~ItemPresent(db, id) \/ db.items[id].userId # userId
           THEN SetOp(t, OpDone(o, FALSE))
           ELSE SetOp(t, [o EXCEPT !.pc = "files",
                                   !.hasFace = \E f \in db.face : f.storageItemId = id,
                                   !.hasMeta = \E m \in db.mediaMeta : m.itemId = id])
    /\ UNCHANGED <<db, cb, now, lastDone, ldb, lcb>>

\* The storage objects of an item: the file and its thumbnail.
ObjectsOf(id) == {[item |-> id, kind |-> "file"], [item |-> id, kind |-> "thumbnail"]}

\* The object the deleteFile call at this position removes.
ObjectAt(o) == [item |-> o.itemId, kind |-> IF o.pc = "files" THEN "file" ELSE "thumbnail"]

\* A deletion that goes on to the rows when deleteFile has failed.
DeleteStorageItemFilesSwallow(t, fails) ==
    /\ ops.thr[t].kind = "deleteStorageItem" /\ ops.thr[t].pc \in {"files", "thumbnail"}
    /\ ops' = [ops EXCEPT !.thr[t] = [@ EXCEPT !.pc = IF @ = "files" THEN "thumbnail" ELSE "faces"],
                          !.objects = IF fails THEN @ ELSE @ \ {ObjectAt(ops.thr[t])}]
    /\ UNCHANGED <<db, cb, now, calls, lastDone, ldb, lcb>>

\* deleteFile of the object, then of its thumbnail; a storage failure is
\* thrown to the caller before any row is deleted.
DeleteStorageItemFiles(t, fails) ==
    /\ ops.thr[t].kind = "deleteStorageItem" /\ ops.thr[t].pc \in {"files", "thumbnail"}
    /\ ops' = IF fails
              THEN [ops EXCEPT !.thr[t] = [OpDone(@, FALSE) EXCEPT !.thrown = TRUE]]
              ELSE [ops EXCEPT !.thr[t] = [@ EXCEPT !.pc = IF @ = "files" THEN "thumbnail"
                                                            ELSE "faces"],
                               !.objects = @ \ {ObjectAt(ops.thr[t])}]
    /\ UNCHANGED <<db, cb, now, calls, lastDone, ldb, lcb>>

\* face.deleteMany, when the item read had faces.
DeleteStorageItemFaces(t) ==
    /\ ops.thr[t].kind = "deleteStorageItem" /\ ops.thr[t].pc = "faces"
    /\ db' = IF ops.thr[t].hasFace THEN DeleteFacesOfItem(db, ops.thr[t].itemId) ELSE db
    /\ SetOp(t, [ops.thr[t] EXCEPT !.pc = "meta"])
    /\ UNCHANGED <<cb, now, calls, lastDone, ldb, lcb>>

\* mediaMeta.deleteMany, when the item read had media meta.
DeleteStorageItemMeta(t) ==
    /\ ops.thr[t].kind = "deleteStorageItem" /\ ops.thr[t].pc = "meta"
    /\ db' = IF ops.thr[t].hasMeta THEN DeleteMediaMetaOfItem(db, ops.thr[t].itemId) ELSE db
    /\ SetOp(t, [ops.thr[t] EXCEPT !.pc = "item"])
    /\ UNCHANGED <<cb, now, calls, lastDone, ldb, lcb>>

\* storageItem.delete, then cleanupOrphanedPeople() is fired and not awaited.
DeleteStorageItemRow(t) ==
    /\ ops.thr[t].kind = "deleteStorageItem" /\ ops.thr[t].pc = "item"
    /\ LET res == DeleteItem(db, ops.thr[t].itemId)
       IN  /\ db' = res.db
           /\ ops' = [ops EXCEPT !.thr[t] = OpDone(@, res.ok),
                                 !.sweeps = IF res.ok THEN @ + 1 ELSE @]
    /\ UNCHANGED <<cb, now, calls, lastDone, ldb, lcb>>

\* A fired cleanupOrphanedPeople runs.
Sweep ==
    /\ ops.sweeps > 0
    /\ db' = CleanupOrphanedPeople(db)
    /\ ops' = [ops EXCEPT !.sweeps = @ - 1]
    /\ UNCHANGED <<cb, now, calls, lastDone, ldb, lcb>>

RemoveLinks(t, personId, itemId, userId) ==
    /\ OpStart(t)
    /\ db' = RemoveStorageItemsFromPerson(db, personId, {itemId}, userId)
    /\ SetOp(t, OpDone([IdleOp EXCEPT !.kind = "removeStorageItemsFromPerson",
                                      !.personId = personId, !.itemId = itemId,
                                      !.userId = userId], TRUE))
    /\ UNCHANGED <<cb, now, lastDone, ldb, lcb>>

AddLink(t, personId, itemId, userId) ==
    /\ OpStart(t)
    /\ LET res == AddStorageItemToPerson(db, personId, itemId, userId)
       IN  /\ db' = res.db
           /\ SetOp(t, OpDone([IdleOp EXCEPT !.kind = "addStorageItemsToPerson",
                                             !.personId = personId, !.itemId = itemId,
                                             !.userId = userId], res.ok))
    /\ UNCHANGED <<cb, now, lastDone, ldb, lcb>>

\* deletePerson: the person must have a link of the user.
DeletePersonStart(t, id, userId) ==
    /\ OpStart(t)
    /\ LET o == [IdleOp EXCEPT !.kind = "deletePerson", !.personId = id, !.userId = userId]
       IN  SetOp(t, IF GetPersonById(db, id, userId) = NoId THEN OpDone(o, FALSE)
                    ELSE [o EXCEPT !.pc = "faces"])
    /\ UNCHANGED <<db, cb, now, lastDone, ldb, lcb>>

\* face.deleteMany({personId}): the faces of the person on every item.
DeletePersonFaces(t) ==
    /\ ops.thr[t].kind = "deletePerson" /\ ops.thr[t].pc = "faces"
    /\ db' = [db EXCEPT !.face = {f \in @ : f.personId # ops.thr[t].personId}]
    /\ SetOp(t, [ops.thr[t] EXCEPT !.pc = "links"])
    /\ UNCHANGED <<cb, now, calls, lastDone, ldb, lcb>>

\* personStorageItem.deleteMany({personId, userId}).
DeletePersonLinks(t) ==
    /\ ops.thr[t].kind = "deletePerson" /\ ops.thr[t].pc = "links"
    /\ db' = [db EXCEPT !.links = {l \in @ : ~(/\ l.personId = ops.thr[t].personId
                                              /\ l.userId = ops.thr[t].userId)}]
    /\ SetOp(t, [ops.thr[t] EXCEPT !.pc = "check"])
    /\ UNCHANGED <<cb, now, calls, lastDone, ldb, lcb>>

\* findFirst of a link of another user; with one the person is kept.
DeletePersonCheck(t) ==
    /\ ops.thr[t].kind = "deletePerson" /\ ops.thr[t].pc = "check"
    /\ SetOp(t, IF \E l \in db.links : /\ l.personId = ops.thr[t].personId
                                       /\ l.userId # ops.thr[t].userId
                THEN OpDone(ops.thr[t], TRUE)
                ELSE [ops.thr[t] EXCEPT !.pc = "delete"])
    /\ UNCHANGED <<db, cb, now, calls, lastDone, ldb, lcb>>

\* person.delete({id}).
DeletePersonRow(t) ==
    /\ ops.thr[t].kind = "deletePerson" /\ ops.thr[t].pc = "delete"
    /\ LET res == PersonDelete(db, ops.thr[t].personId)
       IN  /\ db' = res.db
           /\ SetOp(t, OpDone(ops.thr[t], res.ok))
    /\ UNCHANGED <<cb, now, calls, lastDone, ldb, lcb>>

\* cleanupAfterStorageItemRemoval: the lookup of the orphans among personIds.
ScopedCleanupStart(t, personIds, userId) ==
    /\ OpStart(t)
    /\ LET o == [IdleOp EXCEPT !.kind = "cleanupAfterStorageItemRemoval", !.userId = userId,
                               !.ids = OrphanedAmong(db, personIds)]
       IN  SetOp(t, IF personIds = {} \/ o.ids = {} THEN OpDone(o, TRUE)
                    ELSE [o EXCEPT !.pc = "delete"])
    /\ UNCHANGED <<db, cb, now, lastDone, ldb, lcb>>

\* A delete of the ids found that does not look at the links again.
ScopedCleanupDeleteUnchecked(t) ==
    /\ ops.thr[t].kind = "cleanupAfterStorageItemRemoval" /\ ops.thr[t].pc = "delete"
    /\ db' = RemovePeople(db, ops.thr[t].ids)
    /\ SetOp(t, OpDone(ops.thr[t], TRUE))
    /\ UNCHANGED <<cb, now, calls, lastDone, ldb, lcb>>

\* person.deleteMany of the ids found, conditioned on having no link.
ScopedCleanupDelete(t) ==
    /\ ops.thr[t].kind = "cleanupAfterStorageItemRemoval" /\ ops.thr[t].pc = "delete"
    /\ db' = RemovePeople(db, OrphanedAmong(db, ops.thr[t].ids))
    /\ SetOp(t, OpDone(ops.thr[t], TRUE))
    /\ UNCHANGED <<cb, now, calls, lastDone, ldb, lcb>>

\* createFace for a face of a new person, one awaited store call per step:
\* the item lookup and person.create, then createProfilePicture, face.create
\* and the link upsert.  A rejected call ends it with the error rethrown.
CreateFaceStart(t, id) ==
    /\ OpStart(t)
    /\ LET o == [IdleOp EXCEPT !.kind = "createFace", !.itemId = id]
       IN  IF ~ItemPresent(db, id)
           THEN /\ db' = db
                /\ SetOp(t, [OpDone(o, FALSE) EXCEPT !.thrown = TRUE])
           ELSE /\ db' = PersonCreate(db, fNew.name, fNew.type)
                /\ SetOp(t, [o EXCEPT !.pc = "picture", !.personId = db.nextId,
                                      !.userId = db.items[id].userId])
    /\ UNCHANGED <<cb, now, lastDone, ldb, lcb>>

CreateFaceSettle(t, res, next) ==
    /\ db' = res.db
    /\ SetOp(t, IF ~res.ok THEN [OpDone(ops.thr[t], FALSE) EXCEPT !.thrown = TRUE]
                ELSE IF next = "done" THEN OpDone(ops.thr[t], TRUE)
                ELSE [ops.thr[t] EXCEPT !.pc = next])
    /\ UNCHANGED <<cb, now, calls, lastDone, ldb, lcb>>

CreateFacePicture(t) ==
    /\ ops.thr[t].kind = "createFace" /\ ops.thr[t].pc = "picture"
    /\ CreateFaceSettle(t, CreateProfilePicture(db, ops.thr[t].personId, fNew.profileS3Key), "face")

CreateFaceFace(t) ==
    /\ ops.thr[t].kind = "createFace" /\ ops.thr[t].pc = "face"
    /\ CreateFaceSettle(t, FaceCreate(db, fNew, ops.thr[t].itemId, ops.thr[t].personId), "link")

CreateFaceLink(t) ==
    /\ ops.thr[t].kind = "createFace" /\ ops.thr[t].pc = "link"
    /\ CreateFaceSettle(t, AddStorageItemToPerson(db, ops.thr[t].personId, ops.thr[t].itemId,
                                                  ops.thr[t].userId), "done")

InitDelete ==
    /\ db = DeleteInitDb
    /\ cb = [c \in Callers |-> IdleCaller]
    /\ now = 1
    /\ calls = 0
    /\ lastDone = <<>>
    /\ ldb = None
    /\ lcb = None
    /\ ops = [ thr |-> [t \in Callers |-> IdleOp], sweeps |-> 0,
               objects |-> UNION {ObjectsOf(i) : i \in ItemIds} ]

NextDelete ==
    \/ \E t \in Callers, id \in RequestIds, u \in Users : DeleteStorageItemStart(t, id, u)
    \/ \E t \in Callers, fails \in BOOLEAN : DeleteStorageItemFiles(t, fails)
    \/ \E t \in Callers : DeleteStorageItemFaces(t)
    \/ \E t \in Callers : DeleteStorageItemMeta(t)
    \/ \E t \in Callers : DeleteStorageItemRow(t)
    \/ Sweep
    \/ \E t \in Callers, p \in PersonIds, i \in ItemIds, u \in Users : RemoveLinks(t, p, i, u)
    \/ \E t \in Callers, p \in PersonIds, i \in ItemIds, u \in Users : AddLink(t, p, i, u)
    \/ \E t \in Callers, p \in PersonIds, u \in Users : DeletePersonStart(t, p, u)
    \/ \E t \in Callers : DeletePersonFaces(t)
    \/ \E t \in Callers : DeletePersonLinks(t)
    \/ \E t \in Callers : DeletePersonCheck(t)
    \/ \E t \in Callers : DeletePersonRow(t)
    \/ \E t \in Callers, ids \in SUBSET PersonIds, u \in Users : ScopedCleanupStart(t, ids, u)
    \/ \E t \in Callers : ScopedCleanupDelete(t)
    \/ \E t \in Callers, id \in ItemIds : CreateFaceStart(t, id)
    \/ \E t \in Callers : CreateFacePicture(t)
    \/ \E t \in Callers : CreateFaceFace(t)
    \/ \E t \in Callers : CreateFaceLink(t)

SpecDelete == InitDelete /\ [][NextDelete]_vars

(***************************************************************************)
(* Claims checked under Spec.                                              *)
(***************************************************************************)
Answered(c) == cb[c].pc = "done" /\ ~Running(cb[c])

\* C1: applying the identical payload twice in sequence to an existing item
\* leaves the same row counts and field values as applying it once.
C1_IdempotentReplay ==
    \A c \in Callers :
        ( /\ Answered(c) /\ cb[c].status = 200 /\ cb[c].solo
          /\ Len(cb[c].prev) = 1
          /\ cb[c].prev[1].id = cb[c].id
          /\ cb[c].prev[1].data = cb[c].data )
        => View(db, cb[c].id) = cb[c].prev[1].view

\* C2: in every reachable state an item has at most one side record per
\* metadata category.
C2_OneRecordPerCategory ==
    \A i \in ItemIds, t \in MetaType :
        Cardinality({m \in db.mediaMeta : m.itemId = i /\ m.type = t}) <= 1

WellFormed(faces) == {k \in DOMAIN faces : ~FaceMalformed(faces[k])}

\* C4: a faces array with one malformed entry still has every other entry
\* applied, and the callback answers success.
C4_FaceBatchPartialFailure ==
    \A c \in Callers :
        ( /\ Answered(c) /\ ItemPresent(db, cb[c].id) /\ cb[c].data.defined
          /\ cb[c].data.mediaMeta = <<>>
          /\ Cardinality(DOMAIN cb[c].data.faces \ WellFormed(cb[c].data.faces)) = 1
          /\ WellFormed(cb[c].data.faces) # {} )
        => /\ cb[c].status = 200
           /\ Cardinality({f \in db.face : f.storageItemId = cb[c].id})
                 >= Cardinality(WellFormed(cb[c].data.faces))

Rejected(metas) == {k \in DOMAIN metas : ~MetaSkipped(metas[k]) /\ metas[k].type \notin MetaType}

\* C5: when the merge of one category fails, the other categories and the
\* faces of the same callback are still merged and attached to the item.
C5_PerCategoryIsolation ==
    \A c \in Callers :
        ( /\ Answered(c) /\ ItemPresent(db, cb[c].id) /\ cb[c].data.defined
          /\ Rejected(cb[c].data.mediaMeta) # {} )
        => /\ \A k \in DOMAIN cb[c].data.mediaMeta \ Rejected(cb[c].data.mediaMeta) :
                 MetaSkipped(cb[c].data.mediaMeta[k])
                 \/ \E m \in db.mediaMeta : /\ m.itemId = cb[c].id
                                            /\ m.type = cb[c].data.mediaMeta[k].type
                                            /\ m.payload = cb[c].data.mediaMeta[k].payload
           /\ Cardinality({f \in db.face : f.storageItemId = cb[c].id})
                 >= Cardinality(WellFormed(cb[c].data.faces))

\* C9: a callback for an item id that does not exist is answered with the
\* result {success: false, message} as HTTP 400, and changes nothing in the
\* store.
C9_MissingItemIs400 ==
    [][ \A c \in Callers :
          (cb'[c] # cb[c] /\ ~ItemPresent(db, cb'[c].id))
          => /\ cb'[c].pc = "done"
             /\ cb'[c].status = 400
             /\ cb'[c].message = MsgNotFound
             /\ ~Running(cb'[c])
             /\ db' = db ]_vars

C9_Witness ==
    \E c \in Callers : Answered(c) /\ cb[c].id = MissingItem /\ cb[c].status = 400

NoRecognizedCategory(data) ==
    /\ data.defined
    /\ \A k \in DOMAIN data.mediaMeta : MetaSkipped(data.mediaMeta[k])
    /\ data.faces = <<>>

\* C10: a callback for an existing item whose payload holds no recognized
\* category answers success with the "no updates" message and leaves
\* processedAt and the rest of the store unchanged.
C10_NoCategoryNoUpdate ==
    [][ \A c \in Callers :
          ( /\ cb'[c] # cb[c] /\ cb'[c].pc = "done"
            /\ ItemPresent(db, cb'[c].id)
            /\ NoRecognizedCategory(cb'[c].data) )
          => /\ cb'[c].status = 200
             /\ cb'[c].message = MsgNoUpdates
             /\ db' = db ]_vars

\* C13: after any sequence of callbacks whose faces carry a name and no
\* person id, one Person with that name exists: a Person whose name matches
\* without regard to case is reused.
C13_OnePersonPerName ==
    \A p, q \in db.people : Lower(p.name) = Lower(q.name) => p.id = q.id

Linked(d, face, id) ==
    /\ ~FaceMalformed(face) /\ face.personId # NoId
    /\ \E l \in d.links : l.personId = face.personId /\ l.storageItemId = id

FaceSettles(c, k) == k \in cb[c].facePending /\ k \notin cb'[c].facePending

\* C18: a face entry with action "update" leaves the number of Face rows of
\* the item as it was, and one without a detection id creates no Face and no
\* Person.
C18_UpdateInPlace ==
    [][ \A c \in Callers, k \in 1..MaxEntries :
          (FaceSettles(c, k) /\ cb[c].data.faces[k].action = "update") =>
            /\ Cardinality({f \in db'.face : f.storageItemId = cb[c].id})
                 = Cardinality({f \in db.face : f.storageItemId = cb[c].id})
            /\ cb[c].data.faces[k].detectionId = NoId
                 => db'.face = db.face /\ db'.people = db.people ]_vars

\* The ids the delete entries of a payload list.
ListedForDelete(data) ==
    {data.faces[k].detectionId : k \in {j \in DOMAIN data.faces : data.faces[j].action = "delete"}}

\* C19: when a callback has answered, no Face row whose id one of its delete
\* entries lists is left; and no step removes a Person or a Face row that no
\* delete entry of a running callback lists.
C19_DeleteExactlyListed ==
    [][ /\ \A c \in Callers :
              ([cb'[c] EXCEPT !.solo = cb[c].solo] # cb[c] /\ cb'[c].pc = "done")
              => \A f \in db'.face : f.id \notin ListedForDelete(cb'[c].data)
        /\ \A p \in db.people : p \in db'.people
        /\ \A f \in db.face :
              (f \notin db'.face)
              => \E c \in Callers : f.id \in ListedForDelete(cb'[c].data) ]_vars

\* C21: when the createFace of an entry that names no person id and brings
\* no profile image reference settles, a new Person exists together with a
\* Face of the item and a link to the item, and no picture was created for it.
C21_PersonWithoutPicture ==
    [][ \A c \in Callers, k \in 1..MaxEntries :
          ( /\ FaceSettles(c, k)
            /\ cb[c].data.faces[k].personId = NoId
            /\ cb[c].data.faces[k].profileS3Key = None
            /\ ItemPresent(db, cb[c].id) )
          => \E p \in db'.people \ db.people :
                /\ \E f \in db'.face : f.personId = p.id /\ f.storageItemId = cb[c].id
                /\ \E l \in db'.links : l.personId = p.id /\ l.storageItemId = cb[c].id
                /\ \A q \in db'.pictures : q.personId # p.id ]_vars

\* C22: in every state an item whose processedAt is set has a media meta
\* record or a Face that a callback wrote for it.
C22_ProcessedOnlyAfterMerge ==
    \A i \in ItemIds :
        (ItemPresent(db, i) /\ db.items[i].processedAt # 0)
        => \/ \E m \in db.mediaMeta : m.itemId = i
           \/ \E f \in db.face : f.storageItemId = i

\* C25: when the createFace of an entry settles whose person id names no
\* Person with a link of the item's owner, the callback fails with a
\* not-found error and the step leaves the store as it was.
C25_UnknownPersonId ==
    [][ \A c \in Callers, k \in 1..MaxEntries :
          ( /\ FaceSettles(c, k) /\ cb[c].pc = "faces"
            /\ ItemPresent(db, cb[c].id)
            /\ cb[c].data.faces[k].personId # NoId
            /\ GetPersonById(db, cb[c].data.faces[k].personId, Owner(cb[c].id)) = NoId )
          => /\ db' = db
             /\ cb'[c].pc = "done" /\ cb'[c].error = ErrNotFound ]_vars

\* C26: every Face row carries the user id of the owner of its item, and a
\* createFace that settles with success has created such a row.
C26_FaceCarriesOwner ==
    [][ /\ \A f \in db'.face : f.userId = Owner(f.storageItemId)
        /\ \A c \in Callers, k \in 1..MaxEntries :
              (FaceSettles(c, k) /\ CreateFace(db, cb[c].data.faces[k], cb[c].id).ok)
              => \E f \in db'.face \ db.face :
                    f.storageItemId = cb[c].id /\ f.userId = Owner(cb[c].id) ]_vars

(***************************************************************************)
(* Claims checked under SpecLegacy.                                        *)
(***************************************************************************)
\* C3: a callback that carries category X for an item without an X link
\* creates one X record and sets the item's link id to it; a callback for
\* an item that has the link updates that record and leaves the link id
\* unchanged.
C3_CreateVsUpdate ==
    [][ \A c \in Callers, x \in Categories :
          ( /\ lcb'[c] # lcb[c] /\ lcb'[c].pc = "done" /\ lcb'[c].solo
            /\ lcb'[c].id \in ItemIds
            /\ CategoryGiven(lcb'[c].data, x) )
          => LET before == lcb'[c].item.link[x]
                 after  == ldb'.items[lcb'[c].id].link[x]
             IN  /\ after # NoId
                 /\ before # NoId => after = before
                 /\ \E r \in ldb'.recs : /\ r.id = after /\ r.cat = x
                                         /\ r.val = StoredVal(lcb'[c].data.cat[x]) ]_vars

GeoOnly(data) ==
    /\ data.defined
    /\ data.cat["geo"].present
    /\ \A x \in Categories \ {"geo"} : ~data.cat[x].present
    /\ data.faces = <<>>
    /\ ~data.rekognitionMeta /\ ~data.celebrityData

\* C8: every step of a callback whose payload holds only geoData leaves the
\* records and link ids of the other categories, the face detections, the
\* persons and the other items unchanged; of the geo records only the one
\* the item links may change.
C8_GeoOnlyFrame ==
    [][ \A c \in Callers :
          (lcb'[c] # lcb[c] /\ GeoOnly(lcb'[c].data))
          => /\ {r \in ldb'.recs : r.cat # "geo"} = {r \in ldb.recs : r.cat # "geo"}
             /\ \A i \in ItemIds, x \in Categories \ {"geo"} :
                    ldb'.items[i].link[x] = ldb.items[i].link[x]
             /\ ldb'.faceDetection = ldb.faceDetection
             /\ ldb'.person = ldb.person
             /\ \A i \in ItemIds \ {lcb'[c].id} : ldb'.items[i] = ldb.items[i]
             /\ \A r \in ldb.recs :
                    (r.cat = "geo" /\ r.id # lcb'[c].item.link["geo"]) => r \in ldb'.recs ]_vars

C8_Witness ==
    \E c \in Callers :
        /\ lcb[c].pc = "done" /\ lcb[c].status = 200 /\ GeoOnly(lcb[c].data)
        /\ ldb.items[lcb[c].id].link["geo"] # NoId
        /\ ldb.items[lcb[c].id].link["ocr"] # NoId
        /\ ldb.items[lcb[c].id].processedAt = lcb[c].updates.processedAt
        /\ \E f \in ldb.faceDetection : f.storageItemId = lcb[c].id

NoDuplicates(seq) == \A j, k \in DOMAIN seq : seq[j] = seq[k] => j = k

\* C11: in every reachable state no Person's aliases hold the same alias
\* twice.
C11_AliasesUnique ==
    \A q \in ldb.person : NoDuplicates(q.aliases)

\* C12: a Person that is a celebrity is still a celebrity after every step
\* of every callback and find-or-create call.
C12_CelebrityNeverReverts ==
    [][ \A q \in ldb.person :
          q.isCelebrity => \E r \in ldb'.person : r.id = q.id /\ r.isCelebrity ]_vars

C12_Witness ==
    \E q \in ldb.person, c \in Callers :
        /\ q.isCelebrity /\ InSeq("al", q.aliases)
        /\ lcb[c].pc = "done" /\ lcb[c].status = 200
        /\ \E k \in DOMAIN lcb[c].data.faces :
              /\ lcb[c].data.faces[k] = lfAliceAl
              /\ q.name = lfAliceAl.name

\* The step in which caller c processes the face entry at its position.
FaceStep(c) ==
    /\ lcb[c].pc = "faces"
    /\ lcb'[c].pc # "faces" \/ lcb'[c].k # lcb[c].k

\* C17: when a create action marked as celebrity resolves by name to an
\* existing Person that is no celebrity, the Person is a celebrity with
\* celebrity info afterwards, with or without new aliases in the action.
C17_PromotionOnResolution ==
    [][ \A c \in Callers :
          FaceStep(c) =>
            LET f     == lcb[c].data.faces[lcb[c].k]
                found == FindPersonByName(ldb, f.name)
            IN  ( /\ ~lcb[c].data.faces[1].raw
                  /\ f.action = "create" /\ f.isCelebrity /\ f.info
                  /\ f.personId = NoId /\ f.name # None
                  /\ found # {} /\ ~MinId(found).isCelebrity )
                => \E q \in ldb'.person : /\ q.id = MinId(found).id
                                          /\ q.isCelebrity /\ q.celebrityInfo ]_vars

\* getBoundingBoxDimensions: a provider box, given in fractions, becomes
\* percentages; a box in any other form is returned as it is.
GetBoundingBoxDimensions(face) ==
    IF face.raw THEN face.boundingBox * 100 ELSE face.boundingBox

\* The create action that carries the face of a raw provider response.
AsCreateAction(face) ==
    [face EXCEPT !.raw = FALSE, !.action = "create",
                 !.boundingBox = GetBoundingBoxDimensions(face)]

\* C20: a face entry processed on the raw path leaves the store as the
\* create path leaves it for the same face with its box in percentages:
\* the same Person resolved or created, the same FaceDetection stored.
C20_RawEqualsCreate ==
    [][ \A c \in Callers :
          (FaceStep(c) /\ lcb[c].data.faces[1].raw /\ lcb[c].data.faces[lcb[c].k].raw)
          => ldb' = FaceActionCreate(ldb, AsCreateAction(lcb[c].data.faces[lcb[c].k]),
                                     lcb[c].id).db ]_vars

\* The step in which caller c has merged its moderation category.
ModerationMerged(c) ==
    /\ lcb[c].pc = "category" /\ CatOrder[lcb[c].k] = "moderation"
    /\ lcb'[c].pc \in {"faces", "write"}

\* C24: the moderation record a callback writes stores the supplied isSafe
\* when one is supplied; otherwise isSafe is true exactly when no label of
\* the shaped list and no label of the raw response has a confidence above 80.
C24_IsSafe ==
    [][ \A c \in Callers :
          ModerationMerged(c) =>
            LET p == lcb[c].data.cat["moderation"]
            IN  \E r \in ldb'.recs :
                  /\ r.id = lcb'[c].updates.link["moderation"] /\ r.cat = "moderation"
                  /\ r.isSafe = IF p.supplied THEN p.isSafe
                                ELSE /\ \A k \in DOMAIN p.labels : p.labels[k] <= 80
                                     /\ \A k \in DOMAIN p.rawLabels : p.rawLabels[k] <= 80 ]_vars

C24_Witness ==
    \E c \in Callers :
        /\ lcb[c].pc \in {"write", "done"}
        /\ lcb[c].data.defined
        /\ lcb[c].data.cat["moderation"] = WithRaw(Shaped(<<50>>), <<90>>)
        /\ \E r \in ldb.recs : /\ r.id = lcb[c].updates.link["moderation"]
                               /\ r.cat = "moderation" /\ ~r.isSafe

\* A step of the updateEnrichmentData call of caller c.
LegacyStep(c) ==
    /\ lcb[c].pc \in {"category", "faces", "deletes", "write"}
    /\ lcb'[c].pc # lcb[c].pc \/ lcb'[c].k # lcb[c].k

\* C28: a step of a callback for one item leaves the face detections of
\* the other items, their rows and the records they link as they were.
C28_OnlyOwnRows ==
    [][ \A c \in Callers :
          LegacyStep(c) =>
            /\ \A f \in ldb.faceDetection :
                   f.storageItemId # lcb[c].id => f \in ldb'.faceDetection
            /\ \A i \in ItemIds \ {lcb[c].id} :
                   /\ ldb'.items[i] = ldb.items[i]
                   /\ \A r \in ldb.recs :
                          (\E x \in Categories : r.id = ldb.items[i].link[x]) => r \in ldb'.recs ]_vars

\* C29: once no callback is running, every category record is the one an
\* item links for its category.
C29_NoUnlinkedRecord ==
    (\A c \in Callers : ~LBusy(lcb[c]))
    => \A r \in ldb.recs : \E i \in ItemIds : ldb.items[i].link[r.cat] = r.id

(***************************************************************************)
(* Claims checked under SpecDelete.                                        *)
(***************************************************************************)
Quiescent == ops.sweeps = 0 /\ \A t \in Callers : ~OpBusy(ops.thr[t])

\* C6: once every deletion, link removal and fired cleanup has completed,
\* no Person without a link row of any user remains in the store.
C6_NoOrphanAfterCleanup ==
    Quiescent => \A p \in db.people : HasLink(db, p.id)

\* C7: no step deletes a Person while a link of that Person owned by a user
\* other than the one whose operation takes the step exists.
C7_NoDeleteWhileOtherUserLinked ==
    [][ \A p \in db.people :
          (p \notin db'.people)
          => \A l \in db.links :
                (l.personId = p.id)
                => \E t \in Callers : /\ ops'.thr[t] # ops.thr[t]
                                      /\ ops.thr[t].userId = l.userId ]_vars

C23_ScopedCleanupRechecks ==
    [][ \A t \in Callers :
          ( /\ ops.thr[t].kind = "cleanupAfterStorageItemRemoval"
            /\ ops.thr[t].pc = "delete" /\ ops'.thr[t].pc = "done" )
          => /\ \A p \in db.people :
                   (p \notin db'.people) => (p.id \in ops.thr[t].ids /\ ~HasLink(db, p.id))
             /\ \A l \in db.links : l \in db'.links
             /\ \A f \in db.face : HasLink(db, f.personId) => f \in db'.face ]_vars

C23_Witness ==
    \E t \in Callers :
        /\ ops.thr[t].kind = "cleanupAfterStorageItemRemoval" /\ ops.thr[t].pc = "done"
        /\ \E pid \in ops.thr[t].ids : (\E p \in db.people : p.id = pid) /\ HasLink(db, pid)

\* C27: a run of cleanupOrphanedPeople leaves the Person of every createFace
\* in flight in the store, and a createFace whose item exists completes with
\* success, its Face and its link stored.
C27_SweepSparesNewPerson ==
    [][ \A t \in Callers :
          (ops.thr[t].kind = "createFace" /\ ops.thr[t].pc \in {"picture", "face", "link"})
          => /\ ( /\ ops'.sweeps < ops.sweeps
                  /\ \E p \in db.people : p.id = ops.thr[t].personId )
                => \E p \in db'.people : p.id = ops.thr[t].personId
             /\ (ops'.thr[t].pc = "done" /\ ItemPresent(db, ops.thr[t].itemId))
                => /\ ops'.thr[t].ok
                   /\ \E f \in db'.face : /\ f.personId = ops.thr[t].personId
                                          /\ f.storageItemId = ops.thr[t].itemId
                   /\ \E l \in db'.links : /\ l.personId = ops.thr[t].personId
                                           /\ l.storageItemId = ops.thr[t].itemId ]_vars

\* C30: a step of deletePerson for a Person that has a link of another user
\* leaves the Face rows of that Person on items of other users and the link
\* rows of other users as they were.
C30_DeletePersonOwnRowsOnly ==
    [][ \A t \in Callers :
          ( /\ ops.thr[t].kind = "deletePerson"
            /\ ops.thr[t].pc \in {"faces", "links", "check", "delete"}
            /\ ops'.thr[t] # ops.thr[t]
            /\ \E l \in db.links : /\ l.personId = ops.thr[t].personId
                                   /\ l.userId # ops.thr[t].userId )
          => /\ \A f \in db.face :
                   ( /\ f.personId = ops.thr[t].personId
                     /\ Owner(f.storageItemId) # ops.thr[t].userId ) => f \in db'.face
             /\ \A l \in db.links : l.userId # ops.thr[t].userId => l \in db'.links ]_vars

=============================================================================
